---- MODULE Spec2Model ----
(***************************************************************************)
(* State-machine model of scrubcam.py: the main() routine of the ScrubCam  *)
(* field camera.  One action per statement group of main(); the program    *)
(* counter pc names the statement about to run.  Confidences are tenths    *)
(* (6 stands for 0.6).  The collaborators (detector, socket handler,       *)
(* display, LoRa sender, camera) are observed through the calls main()     *)
(* makes on them: calls holds, in call order, the calls made since the     *)
(* current frame was requested.                                            *)
(***************************************************************************)
EXTENDS Integers, Sequences, FiniteSets

VARIABLES
    cfg,          \* the configuration globals (lines 39-52), fixed after load
    pc,           \* the statement of main() about to run
    exc,          \* the exception raised in main(), "none" while there is none
    built,        \* the collaborator objects main() has constructed so far
    sock,         \* the remote connection: "none", "open", "closed"
    host_configs, \* the host configurations forwarded to the remote collector
    closes,       \* number of socket_handler.close() calls
    elapsed,      \* seconds since the socket handler's last heartbeat
    stream,       \* content of the io.BytesIO frame buffer (frame numbers)
    detFrame,     \* the frame content the detector last ran inference on
    lboxes,       \* detector.labeled_boxes
    seen_file,    \* the lines of what_was_seen.log
    fileOpen,     \* TRUE while main() holds the log file open
    cycle,        \* number of frames the capture iterator has yielded
    calls         \* the collaborator calls of the current cycle, in order

vars == <<cfg, pc, exc, built, sock, host_configs, closes, elapsed, stream,
          detFrame, lboxes, seen_file, fileOpen, cycle, calls>>

-----------------------------------------------------------------------------
(* Bounds of the exploration. *)

MaxCycles == 2

MaxLen == 2

(* Input domains. *)

ClassNames == {"deer", "bird"}

Confidences == {6, 8}

Thresholds == {6, 8}

FilterChoices == {{}, {"deer", "fox"}}

Delays == {0, 15, 20}

Detections == [class_name : ClassNames, confidence : Confidences]

(* The detector reports its boxes ordered by descending confidence. *)
Descending(s) == \A i \in 1..(Len(s) - 1) : s[i].confidence >= s[i + 1].confidence

DetectionSeqs ==
    UNION {{s \in [1..n -> Detections] : Descending(s)} : n \in 0..MaxLen}

Configs ==
    [RECORD : BOOLEAN, RECORD_CONF_THRESHOLD : Thresholds,
     FILTER_CLASSES : FilterChoices, HEADLESS : BOOLEAN,
     CONNECT_REMOTE_SERVER : BOOLEAN, LORA_ON : BOOLEAN,
     CONTINUE_RUN : BOOLEAN]

-----------------------------------------------------------------------------
(* Program points. *)

StartupPoints == {"lora", "detector", "connect", "hostcfg", "display"}

LoopPoints == {"capture", "heartbeat", "infer", "update", "decide", "send",
               "persist", "radio", "log_open", "log_write", "reset"}

Event(op, frame, text) == [op |-> op, frame |-> frame, text |-> text]

Call(op, frame, text) == Append(calls, Event(op, frame, text))

-----------------------------------------------------------------------------
(* The decision policy, lines 93-96. *)

detected_classes(lb) == [i \in DOMAIN lb |-> lb[i].class_name]

(* Variant: the membership test reads the detected classes themselves. *)
AnyInFilterSelf(lb, c) ==
    \E i \in DOMAIN detected_classes(lb) :
        detected_classes(lb)[i] \in {detected_classes(lb)[j] : j \in DOMAIN lb}

(* Variant: only the top detection's class is tested against the filter. *)
AnyInFilterTopOnly(lb, c) == Len(lb) > 0 /\ lb[1].class_name \in c.FILTER_CLASSES

AnyInFilter(lb, c) ==
    \E i \in DOMAIN detected_classes(lb) : detected_classes(lb)[i] \in c.FILTER_CLASSES

(* Variant: an empty detection list takes the dispatch branch. *)
VerdictEmptyDispatches(lb, c) ==
    IF Len(lb) > 0
    THEN IF c.RECORD /\ lb[1].confidence > c.RECORD_CONF_THRESHOLD
         THEN IF AnyInFilter(lb, c) THEN "LogAndDispatch" ELSE "LogOnly"
         ELSE "NoAction"
    ELSE "LogAndDispatch"

(* Variant: the confidence gate is >= instead of >. *)
VerdictGreaterOrEqual(lb, c) ==
    IF Len(lb) > 0
    THEN IF c.RECORD /\ lb[1].confidence >= c.RECORD_CONF_THRESHOLD
         THEN IF AnyInFilter(lb, c) THEN "LogAndDispatch" ELSE "LogOnly"
         ELSE "NoAction"
    ELSE "NoAction"

(* Variant: the RECORD flag is or-ed with the confidence gate. *)
VerdictRecordOr(lb, c) ==
    IF Len(lb) > 0
    THEN IF c.RECORD \/ lb[1].confidence > c.RECORD_CONF_THRESHOLD
         THEN IF AnyInFilter(lb, c) THEN "LogAndDispatch" ELSE "LogOnly"
         ELSE "NoAction"
    ELSE "NoAction"

Verdict(lb, c) ==
    IF Len(lb) > 0
    THEN IF c.RECORD /\ lb[1].confidence > c.RECORD_CONF_THRESHOLD
         THEN IF AnyInFilter(lb, c) THEN "LogAndDispatch" ELSE "LogOnly"
         ELSE "NoAction"
    ELSE "NoAction"

(* Statement order of the loop body, lines 83-112: the program point reached
   after the statement at p completes, under verdict v of the conditionals. *)
(* Variant: the log append comes before the dispatch calls. *)
AfterLogFirst(p, v) ==
    CASE p = "capture"   -> "heartbeat"
      [] p = "heartbeat" -> "infer"
      [] p = "infer"     -> "update"
      [] p = "update"    -> "decide"
      [] p = "decide"    -> IF v = "NoAction" THEN "reset" ELSE "log_open"
      [] p = "log_open"  -> "log_write"
      [] p = "log_write" -> IF v = "LogAndDispatch" THEN "send" ELSE "reset"
      [] p = "send"      -> "persist"
      [] p = "persist"   -> "radio"
      [] p = "radio"     -> "reset"
      [] p = "reset"     -> "capture"

(* Variant: the frame is persisted after the radio message. *)
AfterPersistLate(p, v) ==
    CASE p = "capture"   -> "heartbeat"
      [] p = "heartbeat" -> "infer"
      [] p = "infer"     -> "update"
      [] p = "update"    -> "decide"
      [] p = "decide"    -> IF v = "LogAndDispatch" THEN "send"
                            ELSE IF v = "LogOnly" THEN "log_open"
                            ELSE "reset"
      [] p = "send"      -> "radio"
      [] p = "radio"     -> "persist"
      [] p = "persist"   -> "log_open"
      [] p = "log_open"  -> "log_write"
      [] p = "log_write" -> "reset"
      [] p = "reset"     -> "capture"

(* Variant: the heartbeat check comes after inference. *)
AfterHeartbeatLate(p, v) ==
    CASE p = "capture"   -> "infer"
      [] p = "infer"     -> "heartbeat"
      [] p = "heartbeat" -> "update"
      [] p = "update"    -> "decide"
      [] p = "decide"    -> IF v = "LogAndDispatch" THEN "send"
                            ELSE IF v = "LogOnly" THEN "log_open"
                            ELSE "reset"
      [] p = "send"      -> "persist"
      [] p = "persist"   -> "radio"
      [] p = "radio"     -> "log_open"
      [] p = "log_open"  -> "log_write"
      [] p = "log_write" -> "reset"
      [] p = "reset"     -> "capture"

(* Variant: a cycle without action leaves the loop. *)
AfterBreakOnNoAction(p, v) ==
    CASE p = "capture"   -> "heartbeat"
      [] p = "heartbeat" -> "infer"
      [] p = "infer"     -> "update"
      [] p = "update"    -> "decide"
      [] p = "decide"    -> IF v = "LogAndDispatch" THEN "send"
                            ELSE IF v = "LogOnly" THEN "log_open"
                            ELSE "done"
      [] p = "send"      -> "persist"
      [] p = "persist"   -> "radio"
      [] p = "radio"     -> "log_open"
      [] p = "log_open"  -> "log_write"
      [] p = "log_write" -> "reset"
      [] p = "reset"     -> "capture"

(* Variant: the buffer reset is inside the detections branch, so a cycle
   without action skips it. *)
AfterResetInsideIf(p, v) ==
    CASE p = "capture"   -> "heartbeat"
      [] p = "heartbeat" -> "infer"
      [] p = "infer"     -> "update"
      [] p = "update"    -> "decide"
      [] p = "decide"    -> IF v = "LogAndDispatch" THEN "send"
                            ELSE IF v = "LogOnly" THEN "log_open"
                            ELSE "capture"
      [] p = "send"      -> "persist"
      [] p = "persist"   -> "radio"
      [] p = "radio"     -> "log_open"
      [] p = "log_open"  -> "log_write"
      [] p = "log_write" -> "reset"
      [] p = "reset"     -> "capture"

After(p, v) ==
    CASE p = "capture"   -> "heartbeat"
      [] p = "heartbeat" -> "infer"
      [] p = "infer"     -> "update"
      [] p = "update"    -> "decide"
      [] p = "decide"    -> IF v = "LogAndDispatch" THEN "send"
                            ELSE IF v = "LogOnly" THEN "log_open"
                            ELSE "reset"
      [] p = "send"      -> "persist"
      [] p = "persist"   -> "radio"
      [] p = "radio"     -> "log_open"
      [] p = "log_open"  -> "log_write"
      [] p = "log_write" -> "reset"
      [] p = "reset"     -> "capture"

Goto(p) == After(p, Verdict(lboxes, cfg))

-----------------------------------------------------------------------------
Init ==
    /\ cfg \in Configs
    /\ pc = "lora"
    /\ exc = "none"
    /\ built = {}
    /\ sock = "none"
    /\ host_configs = <<>>
    /\ closes = 0
    /\ elapsed = 0
    /\ stream = <<>>
    /\ detFrame = <<>>
    /\ lboxes = <<>>
    /\ seen_file = <<>>
    /\ fileOpen = FALSE
    /\ cycle = 0
    /\ calls = <<>>

(* Lines 59-62. *)
StartLora ==
    /\ pc = "lora"
    /\ built' = IF cfg.LORA_ON THEN built \cup {"lora_sender"} ELSE built
    /\ pc' = "detector"
    /\ UNCHANGED <<cfg, exc, sock, host_configs, closes, elapsed, stream,
                   detFrame, lboxes, seen_file, fileOpen, cycle, calls>>

(* Lines 64-69. *)
StartDetector ==
    /\ pc = "detector"
    /\ built' = built \cup {"detector", "stream", "camera"}
    /\ pc' = "connect"
    /\ UNCHANGED <<cfg, exc, sock, host_configs, closes, elapsed, stream,
                   detFrame, lboxes, seen_file, fileOpen, cycle, calls>>

(* Variant: the socket handler is built but the host configuration is not
   forwarded. *)
ConnectNoHostConfigs ==
    /\ pc = "connect"
    /\ IF cfg.CONNECT_REMOTE_SERVER
       THEN /\ built' = built \cup {"socket_handler"}
            /\ sock' = "open"
       ELSE UNCHANGED <<built, sock>>
    /\ pc' = "display"
    /\ UNCHANGED <<cfg, exc, host_configs, closes, elapsed, stream, detFrame,
                   lboxes, seen_file, fileOpen, cycle, calls>>

(* Lines 71-73 and 75-76. *)
Connect ==
    /\ pc = "connect"
    /\ IF cfg.CONNECT_REMOTE_SERVER
       THEN /\ built' = built \cup {"socket_handler"}
            /\ sock' = "open"
            /\ pc' = "hostcfg"
       ELSE /\ pc' = "display"
            /\ UNCHANGED <<built, sock>>
    /\ UNCHANGED <<cfg, exc, host_configs, closes, elapsed, stream, detFrame,
                   lboxes, seen_file, fileOpen, cycle, calls>>

(* Line 74. *)
SendHostConfigs ==
    /\ pc = "hostcfg"
    /\ host_configs' = Append(host_configs,
                              [filter_classes |-> cfg.FILTER_CLASSES,
                               cont |-> cfg.CONTINUE_RUN])
    /\ pc' = "display"
    /\ UNCHANGED <<cfg, exc, built, sock, closes, elapsed, stream, detFrame,
                   lboxes, seen_file, fileOpen, cycle, calls>>

(* Lines 78-80. *)
StartDisplay ==
    /\ pc = "display"
    /\ built' = IF ~cfg.HEADLESS THEN built \cup {"display"} ELSE built
    /\ pc' = "capture"
    /\ UNCHANGED <<cfg, exc, sock, host_configs, closes, elapsed, stream,
                   detFrame, lboxes, seen_file, fileOpen, cycle, calls>>

(* Line 83: the capture iterator writes the next frame into the stream at the
   stream's position and yields. *)
Capture ==
    /\ pc = "capture"
    /\ cycle < MaxCycles
    /\ cycle' = cycle + 1
    /\ stream' = Append(stream, cycle + 1)
    /\ calls' = <<Event("capture", <<cycle + 1>>, <<>>)>>
    /\ pc' = Goto("capture")
    /\ UNCHANGED <<cfg, exc, built, sock, host_configs, closes, elapsed,
                   detFrame, lboxes, seen_file, fileOpen>>

(* Heartbeat interval of the socket handler, in seconds. *)
HEARTBEAT_INTERVAL == 15

(* Heartbeat timer of the socket handler: due once the interval has elapsed
   since the last heartbeat. *)
HeartbeatDue(e) == e >= HEARTBEAT_INTERVAL

(* Lines 84-85: send_heartbeat_every_15s sends one heartbeat and resets the
   clock when the heartbeat is due. *)
Heartbeat ==
    /\ pc = "heartbeat"
    /\ IF cfg.CONNECT_REMOTE_SERVER /\ HeartbeatDue(elapsed)
       THEN /\ calls' = Call("send_heartbeat", <<>>, <<>>)
            /\ elapsed' = 0
       ELSE UNCHANGED <<calls, elapsed>>
    /\ pc' = Goto("heartbeat")
    /\ UNCHANGED <<cfg, exc, built, sock, host_configs, closes, stream,
                   detFrame, lboxes, seen_file, fileOpen, cycle>>

(* Lines 86-89: inference on the stream (it takes d seconds, which the
   heartbeat clock of an existing socket handler sees), report, and read of
   labeled_boxes. *)
Infer ==
    /\ pc = "infer"
    /\ \E lb \in DetectionSeqs : lboxes' = lb
    /\ \E d \in Delays :
          elapsed' = IF "socket_handler" \in built THEN elapsed + d ELSE elapsed
    /\ detFrame' = stream
    /\ calls' = Call("infer", stream, <<>>)
    /\ pc' = Goto("infer")
    /\ UNCHANGED <<cfg, exc, built, sock, host_configs, closes, stream,
                   seen_file, fileOpen, cycle>>

(* Variant: the display is updated only when there are detections. *)
UpdateDisplayIfDetections ==
    /\ pc = "update"
    /\ IF ~cfg.HEADLESS /\ Len(lboxes) > 0
       THEN calls' = Call("display_update", <<>>, detected_classes(lboxes))
       ELSE UNCHANGED calls
    /\ pc' = Goto("update")
    /\ UNCHANGED <<cfg, exc, built, sock, host_configs, closes, elapsed, stream,
                   detFrame, lboxes, seen_file, fileOpen, cycle>>

(* Lines 90-91. *)
UpdateDisplay ==
    /\ pc = "update"
    /\ IF ~cfg.HEADLESS
       THEN calls' = Call("display_update", <<>>, detected_classes(lboxes))
       ELSE UNCHANGED calls
    /\ pc' = Goto("update")
    /\ UNCHANGED <<cfg, exc, built, sock, host_configs, closes, elapsed, stream,
                   detFrame, lboxes, seen_file, fileOpen, cycle>>

(* Lines 93-96: the nested conditionals select the branch to run. *)
Decide ==
    /\ pc = "decide"
    /\ pc' = Goto("decide")
    /\ UNCHANGED <<cfg, exc, built, sock, host_configs, closes, elapsed, stream,
                   detFrame, lboxes, seen_file, fileOpen, cycle, calls>>

(* Variant: the image is sent without looking at CONNECT_REMOTE_SERVER. *)
SendImageUnguarded ==
    /\ pc = "send"
    /\ calls' = Call("send_image_and_boxes", stream, detected_classes(lboxes))
    /\ pc' = Goto("send")
    /\ UNCHANGED <<cfg, exc, built, sock, host_configs, closes, elapsed, stream,
                   detFrame, lboxes, seen_file, fileOpen, cycle>>

(* Lines 97-99. *)
SendImage ==
    /\ pc = "send"
    /\ IF cfg.CONNECT_REMOTE_SERVER
       THEN calls' = Call("send_image_and_boxes", stream, detected_classes(lboxes))
       ELSE UNCHANGED calls
    /\ pc' = Goto("send")
    /\ UNCHANGED <<cfg, exc, built, sock, host_configs, closes, elapsed, stream,
                   detFrame, lboxes, seen_file, fileOpen, cycle>>

(* Line 100: the detector saves the frame it last ran inference on. *)
Persist ==
    /\ pc = "persist"
    /\ calls' = Call("save_current_frame", detFrame, detected_classes(lboxes))
    /\ pc' = Goto("persist")
    /\ UNCHANGED <<cfg, exc, built, sock, host_configs, closes, elapsed, stream,
                   detFrame, lboxes, seen_file, fileOpen, cycle>>

(* Variant: the message names the last detection. *)
to_send_last(lb) == <<"Top-1: ", lb[Len(lb)].class_name>>

(* Line 102: the f-string "Top-1: {class_name}", kept as its two parts. *)
to_send(lb) == <<"Top-1: ", lb[1].class_name>>

(* Lines 101-103. *)
Radio ==
    /\ pc = "radio"
    /\ IF cfg.LORA_ON
       THEN calls' = Call("lora_send", <<>>, to_send(lboxes))
       ELSE UNCHANGED calls
    /\ pc' = Goto("radio")
    /\ UNCHANGED <<cfg, exc, built, sock, host_configs, closes, elapsed, stream,
                   detFrame, lboxes, seen_file, fileOpen, cycle>>

(* Line 105: open('what_was_seen.log', 'a+'). *)
LogOpen ==
    /\ pc = "log_open"
    /\ fileOpen' = TRUE
    /\ pc' = Goto("log_open")
    /\ UNCHANGED <<cfg, exc, built, sock, host_configs, closes, elapsed, stream,
                   detFrame, lboxes, seen_file, cycle, calls>>

(* Lines 106-109: the line "<tstamp> | <top_class>\n".  The wall clock is not
   modelled; the frame number of the cycle stands for the timestamp. *)
LogLine(t, lb) == <<t, " | ", lb[1].class_name, "\n">>

(* Variant: the file is opened in 'w' mode, which truncates it. *)
WriteTruncate(file, line) == <<line>>

(* Append-mode write: the line goes to the end of the file. *)
WriteAppend(file, line) == Append(file, line)

(* Variant: the file is opened without a with block and never closed. *)
LogWriteNoClose ==
    /\ pc = "log_write"
    /\ fileOpen
    /\ seen_file' = WriteAppend(seen_file, LogLine(cycle, lboxes))
    /\ calls' = Call("log_write", <<>>, <<lboxes[1].class_name>>)
    /\ pc' = Goto("log_write")
    /\ UNCHANGED <<cfg, exc, built, sock, host_configs, closes, elapsed, stream,
                   detFrame, lboxes, fileOpen, cycle>>

(* Lines 106-109 and the exit of the with block, which closes the file. *)
LogWrite ==
    /\ pc = "log_write"
    /\ fileOpen
    /\ seen_file' = WriteAppend(seen_file, LogLine(cycle, lboxes))
    /\ calls' = Call("log_write", <<>>, <<lboxes[1].class_name>>)
    /\ fileOpen' = FALSE
    /\ pc' = Goto("log_write")
    /\ UNCHANGED <<cfg, exc, built, sock, host_configs, closes, elapsed, stream,
                   detFrame, lboxes, cycle>>

(* Lines 111-112: seek(0) and truncate() empty the buffer. *)
Reset ==
    /\ pc = "reset"
    /\ stream' = <<>>
    /\ pc' = Goto("reset")
    /\ UNCHANGED <<cfg, exc, built, sock, host_configs, closes, elapsed,
                   detFrame, lboxes, seen_file, fileOpen, cycle, calls>>

(* A KeyboardInterrupt raised in the start-up code, lines 59-80, which no
   try block encloses: it leaves main(). *)
InterruptStartup ==
    /\ exc = "none"
    /\ pc \in StartupPoints
    /\ exc' = "KeyboardInterrupt"
    /\ pc' = "uncaught"
    /\ UNCHANGED <<cfg, built, sock, host_configs, closes, elapsed, stream,
                   detFrame, lboxes, seen_file, fileOpen, cycle, calls>>

(* Variant: the try block is inside the loop body, so after the handler the
   loop goes on with the next statement. *)
InterruptLoopResumes ==
    /\ exc = "none"
    /\ pc \in LoopPoints
    /\ exc' = "KeyboardInterrupt"
    /\ fileOpen' = FALSE
    /\ IF cfg.CONNECT_REMOTE_SERVER
       THEN /\ calls' = Call("close", <<>>, <<>>)
            /\ closes' = closes + 1
            /\ sock' = "closed"
       ELSE UNCHANGED <<calls, closes, sock>>
    /\ pc' = IF pc \in {"log_open", "log_write"} THEN "reset" ELSE pc
    /\ UNCHANGED <<cfg, built, host_configs, elapsed, stream, detFrame, lboxes,
                   seen_file, cycle>>

(* A KeyboardInterrupt raised at a statement of the try block, lines 82-112,
   and its handler, lines 113-116: leaving the with block closes the log
   file, the handler logs a warning and closes the socket handler when one
   was configured, and main() returns. *)
InterruptLoop ==
    /\ exc = "none"
    /\ pc \in LoopPoints
    /\ exc' = "KeyboardInterrupt"
    /\ fileOpen' = FALSE
    /\ IF cfg.CONNECT_REMOTE_SERVER
       THEN /\ calls' = Call("close", <<>>, <<>>)
            /\ closes' = closes + 1
            /\ sock' = "closed"
       ELSE UNCHANGED <<calls, closes, sock>>
    /\ pc' = "done"
    /\ UNCHANGED <<cfg, built, host_configs, elapsed, stream, detFrame, lboxes,
                   seen_file, cycle>>

(* The statement at p calls a collaborator or the file system. *)
CallsOut(p) ==
    IF p \in {"connect", "hostcfg", "heartbeat", "send"} THEN cfg.CONNECT_REMOTE_SERVER
    ELSE IF p \in {"display", "update"} THEN ~cfg.HEADLESS
    ELSE IF p \in {"lora", "radio"} THEN cfg.LORA_ON
    ELSE p \in {"detector", "capture", "infer", "persist", "log_open", "log_write"}

(* Variant: the except clause catches every exception, so a failing call
   takes the shutdown path. *)
FaultCaught ==
    /\ exc = "none"
    /\ pc \in StartupPoints \cup LoopPoints
    /\ CallsOut(pc)
    /\ exc' = "Fault"
    /\ fileOpen' = FALSE
    /\ IF pc \in LoopPoints /\ cfg.CONNECT_REMOTE_SERVER
       THEN /\ calls' = Call("close", <<>>, <<>>)
            /\ closes' = closes + 1
            /\ sock' = "closed"
       ELSE UNCHANGED <<calls, closes, sock>>
    /\ pc' = IF pc \in LoopPoints THEN "done" ELSE "uncaught"
    /\ UNCHANGED <<cfg, built, host_configs, elapsed, stream, detFrame, lboxes,
                   seen_file, cycle>>

(* A collaborator call raises.  The only except clause (line 113) names
   KeyboardInterrupt, so any other exception leaves main(). *)
Fault ==
    /\ exc = "none"
    /\ pc \in StartupPoints \cup LoopPoints
    /\ CallsOut(pc)
    /\ exc' = "Fault"
    /\ pc' = "uncaught"
    /\ fileOpen' = FALSE
    /\ UNCHANGED <<cfg, built, sock, host_configs, closes, elapsed, stream,
                   detFrame, lboxes, seen_file, cycle, calls>>

Next ==
    \/ StartLora
    \/ StartDetector
    \/ Connect
    \/ SendHostConfigs
    \/ StartDisplay
    \/ Capture
    \/ Heartbeat
    \/ Infer
    \/ UpdateDisplay
    \/ Decide
    \/ SendImage
    \/ Persist
    \/ Radio
    \/ LogOpen
    \/ LogWrite
    \/ Reset
    \/ InterruptStartup
    \/ InterruptLoop
    \/ Fault

Spec == Init /\ [][Next]_vars

-----------------------------------------------------------------------------
(* Observations the properties are stated on. *)

Ops(s) == [i \in DOMAIN s |-> s[i].op]

IsPrefix(s, t) == Len(s) <= Len(t) /\ \A i \in DOMAIN s : s[i] = t[i]

IsEffect(e) ==
    e.op \in {"send_image_and_boxes", "save_current_frame", "lora_send", "log_write"}

(* The side effects issued so far in the current cycle, in issue order. *)
Effects == Ops(SelectSeq(calls, IsEffect))

(* The sighting-log lines written in cycle n. *)
LinesOf(n) == SelectSeq(seen_file, LAMBDA l : l[1] = n)

(* Inference of the current cycle has completed: lboxes is this cycle's
   Detection sequence. *)
Inferred == \E i \in DOMAIN calls : calls[i].op = "infer"

(* The current cycle has run to its end (buffer reset reached or done). *)
CycleComplete == Inferred /\ pc \in {"reset", "capture"}

(* The recording condition and the filter intersection, as the
   specification words them. *)
Qualifies(lb, c) ==
    /\ lb # <<>>
    /\ c.RECORD
    /\ lb[1].confidence > c.RECORD_CONF_THRESHOLD

Matches(lb, c) == {lb[i].class_name : i \in DOMAIN lb} \cap c.FILTER_CLASSES # {}

NoActionObserved == Effects = <<>> /\ LinesOf(cycle) = <<>> /\ ~fileOpen

(* C1: in a cycle whose Detection sequence is empty nothing is logged, sent,
   persisted or radioed, whatever the configuration. *)
C1_EmptyIsNoAction == (Inferred /\ lboxes = <<>>) => NoActionObserved

C1_Witness ==
    /\ CycleComplete /\ pc = "capture" /\ lboxes = <<>>
    /\ cfg.RECORD /\ cfg.CONNECT_REMOTE_SERVER /\ cfg.LORA_ON
    /\ cfg.FILTER_CLASSES # {}

(* C2: when the top detection's confidence equals the threshold, or is below
   it, nothing is logged, sent, persisted or radioed: the gate is strict. *)
C2_GateIsStrict ==
    (Inferred /\ lboxes # <<>> /\ lboxes[1].confidence <= cfg.RECORD_CONF_THRESHOLD)
        => NoActionObserved

C2_Witness ==
    /\ CycleComplete /\ pc = "capture" /\ lboxes # <<>>
    /\ lboxes[1].confidence = cfg.RECORD_CONF_THRESHOLD
    /\ cfg.RECORD /\ Matches(lboxes, cfg)
    /\ cfg.CONNECT_REMOTE_SERVER /\ cfg.LORA_ON

(* C3: with RECORD off nothing is logged, sent, persisted or radioed,
   whatever the confidences and classes of the detections. *)
C3_RecordOffIsNoAction == (Inferred /\ ~cfg.RECORD) => NoActionObserved

C3_Witness ==
    /\ CycleComplete /\ pc = "capture" /\ ~cfg.RECORD /\ lboxes # <<>>
    /\ lboxes[1].confidence > cfg.RECORD_CONF_THRESHOLD
    /\ Matches(lboxes, cfg)
    /\ cfg.CONNECT_REMOTE_SERVER /\ cfg.LORA_ON

(* C4: when the recording condition holds and no detected class is in
   FILTER_CLASSES, the cycle appends exactly one log line and issues no
   network send, no persist and no radio message. *)
C4_LogOnly ==
    (Inferred /\ Qualifies(lboxes, cfg) /\ ~Matches(lboxes, cfg)) =>
        /\ IsPrefix(Effects, <<"log_write">>)
        /\ Len(LinesOf(cycle)) <= 1
        /\ CycleComplete => (Effects = <<"log_write">> /\ Len(LinesOf(cycle)) = 1)

C4_Witness ==
    /\ CycleComplete /\ pc = "capture"
    /\ Qualifies(lboxes, cfg) /\ ~Matches(lboxes, cfg)
    /\ Len(lboxes) = 2 /\ cfg.FILTER_CLASSES # {}
    /\ cfg.CONNECT_REMOTE_SERVER /\ cfg.LORA_ON
    /\ Len(LinesOf(cycle)) = 1

(* The calls a dispatching cycle owes, in the order of the per-cycle
   algorithm: network send (remote configured), persist, radio (radio
   enabled). *)
DispatchEffects(c) ==
    (IF c.CONNECT_REMOTE_SERVER THEN <<"send_image_and_boxes">> ELSE <<>>)
        \o <<"save_current_frame">>
        \o (IF c.LORA_ON THEN <<"lora_send">> ELSE <<>>)

(* The side effects a cycle with detections lb owes under configuration c. *)
ExpectedEffects(lb, c) ==
    IF Qualifies(lb, c)
    THEN (IF Matches(lb, c) THEN DispatchEffects(c) ELSE <<>>) \o <<"log_write">>
    ELSE <<>>

(* C5 as stated: a dispatching cycle issues the log entry first, then the
   persist, then the network send (remote configured), then the radio message
   (radio enabled). *)
C5_LogFirstOrder ==
    (CycleComplete /\ Qualifies(lboxes, cfg) /\ Matches(lboxes, cfg)) =>
        Effects = <<"log_write", "save_current_frame">>
                    \o (IF cfg.CONNECT_REMOTE_SERVER THEN <<"send_image_and_boxes">> ELSE <<>>)
                    \o (IF cfg.LORA_ON THEN <<"lora_send">> ELSE <<>>)

(* C5 amended: a dispatching cycle issues, each exactly once and in this
   order, the network send (remote configured), the persist, the radio message
   (radio enabled) and last the log entry. *)
C5_DispatchThenLog ==
    (CycleComplete /\ Qualifies(lboxes, cfg) /\ Matches(lboxes, cfg)) =>
        /\ Effects = DispatchEffects(cfg) \o <<"log_write">>
        /\ Len(LinesOf(cycle)) = 1

C5_Witness ==
    /\ CycleComplete /\ pc = "capture"
    /\ Qualifies(lboxes, cfg) /\ Matches(lboxes, cfg)
    /\ cfg.CONNECT_REMOTE_SERVER /\ cfg.LORA_ON
    /\ Len(Effects) = 4

(* C6: the calls of a cycle follow the capture that opened it; its side
   effects are issued in the order send, persist, radio, log; and all of
   them have been issued when the next capture is about to begin. *)
C6_EffectsBeforeNextCapture ==
    /\ cycle >= 1 => (calls # <<>> /\ calls[1] = Event("capture", <<cycle>>, <<>>))
    /\ \A i \in DOMAIN calls : i > 1 => calls[i].op # "capture"
    /\ IsPrefix(Effects, IF Inferred THEN ExpectedEffects(lboxes, cfg) ELSE <<>>)
    /\ (pc = "capture" /\ cycle >= 1) => Effects = ExpectedEffects(lboxes, cfg)

C6_Witness ==
    /\ pc = "capture" /\ cycle = 2 /\ Len(seen_file) = 2
    /\ Len(Effects) = 4
    /\ stream = <<>>

(* C7 as stated: wherever in main() the KeyboardInterrupt arrives, the run
   ends by returning normally, with the connection closed exactly once when
   one was opened and never closed when none is configured. *)
C7_ShutdownAnywhere ==
    exc = "KeyboardInterrupt" =>
        /\ pc = "done"
        /\ "socket_handler" \in built => (closes = 1 /\ sock = "closed")
        /\ ~cfg.CONNECT_REMOTE_SERVER => closes = 0

Last(s) == s[Len(s)]

(* The step appends a call of operation op to calls. *)
Issues(op) == calls' # calls /\ calls' # <<>> /\ Last(calls').op = op

(* The step sends one heartbeat. *)
HeartbeatSent == calls' = Append(calls, Event("send_heartbeat", <<>>, <<>>))

(* C8: with a remote connection the heartbeat check runs in every cycle
   between the capture and the inference; it sends one heartbeat and resets
   the clock exactly when 15 s or more have elapsed since the last one, so
   no inference starts with a heartbeat due; without a remote connection no
   heartbeat is ever sent. *)
C8_HeartbeatEveryCycle ==
    /\ [](~cfg.CONNECT_REMOTE_SERVER =>
             \A i \in DOMAIN calls : calls[i].op # "send_heartbeat")
    /\ [][/\ (pc = "heartbeat" /\ pc' \in LoopPoints) =>
                /\ HeartbeatSent <=> (cfg.CONNECT_REMOTE_SERVER /\ elapsed >= 15)
                /\ HeartbeatSent => elapsed' = 0
                /\ ~HeartbeatSent => (calls' = calls /\ elapsed' = elapsed)
          /\ Issues("send_heartbeat") =>
                (pc = "heartbeat" /\ Ops(calls) = <<"capture">>)
          /\ Issues("infer") =>
                /\ Ops(calls) \in {<<"capture">>, <<"capture", "send_heartbeat">>}
                /\ cfg.CONNECT_REMOTE_SERVER => elapsed < 15
         ]_vars

C8_Witness ==
    /\ cycle = 2 /\ pc = "infer" /\ elapsed = 0
    /\ Ops(calls) = <<"capture", "send_heartbeat">>

(* C9: a completed cycle has exactly one log line when the recording
   condition holds and none otherwise, whatever the filter and the flags;
   every change of the log appends one line naming the class of detection 0
   to the unchanged earlier log, so the lines are in cycle order. *)
C9_SightingLog ==
    /\ [](/\ \A i, j \in DOMAIN seen_file : i < j => seen_file[i][1] < seen_file[j][1]
          /\ (pc = "capture" /\ cycle >= 1) =>
                Len(LinesOf(cycle)) = IF Qualifies(lboxes, cfg) THEN 1 ELSE 0)
    /\ [][seen_file' # seen_file =>
            /\ Inferred /\ Qualifies(lboxes, cfg)
            /\ LinesOf(cycle) = <<>>
            /\ seen_file' = Append(seen_file, <<cycle, " | ", lboxes[1].class_name, "\n">>)
         ]_vars

C9_Witness ==
    /\ pc = "capture" /\ cycle = 2 /\ Len(seen_file) = 2
    /\ seen_file[1] = <<1, " | ", "bird", "\n">>
    /\ seen_file[2] = <<2, " | ", "deer", "\n">>
    /\ cfg.FILTER_CLASSES = {"deer", "fox"}
    /\ cfg.HEADLESS /\ ~cfg.CONNECT_REMOTE_SERVER /\ ~cfg.LORA_ON

RadioCalls == SelectSeq(calls, LAMBDA e : e.op = "lora_send")

(* C10: a radio message is sent only with LORA_ON, in a cycle that meets the
   recording condition and matches the filter, at most once in the cycle,
   and its text is "Top-1: " followed by the class of detection 0. *)
C10_RadioTopOnly ==
    /\ [](Len(RadioCalls) <= 1)
    /\ [][Issues("lora_send") =>
            /\ cfg.LORA_ON
            /\ Inferred /\ Qualifies(lboxes, cfg) /\ Matches(lboxes, cfg)
            /\ RadioCalls = <<>>
            /\ calls' = Append(calls, Event("lora_send", <<>>,
                                            <<"Top-1: ", lboxes[1].class_name>>))
         ]_vars

C10_Witness ==
    /\ pc = "log_open" /\ calls # <<>>
    /\ Last(calls) = Event("lora_send", <<>>, <<"Top-1: ", "bird">>)
    /\ Len(lboxes) = 2
    /\ lboxes[2].class_name = "deer"
    /\ cfg.FILTER_CLASSES = {"deer", "fox"}

(* C11: a failing collaborator call ends the run with the failure
   propagated: the failing step changes nothing but the control state (no
   retry, no further side effect, no new cycle), the socket is not closed,
   and no step follows. *)
C11_FailurePropagates ==
    /\ [](exc = "Fault" => (pc = "uncaught" /\ closes = 0 /\ sock # "closed" /\ ~fileOpen))
    /\ [][(exc = "none" /\ exc' = "Fault") =>
            UNCHANGED <<calls, seen_file, cycle, stream, lboxes, host_configs,
                        closes, sock>>]_vars
    /\ [][exc # "Fault"]_vars

C11_Witness ==
    /\ exc = "Fault" /\ pc = "uncaught" /\ sock = "open"
    /\ cfg.LORA_ON /\ Qualifies(lboxes, cfg) /\ Matches(lboxes, cfg)
    /\ Effects = <<"send_image_and_boxes", "save_current_frame">>
    /\ LinesOf(cycle) = <<>>

(* A step of main() other than an exception. *)
NormalStep ==
    \/ StartLora \/ StartDetector \/ Connect \/ SendHostConfigs \/ StartDisplay
    \/ Capture \/ Heartbeat \/ Infer \/ UpdateDisplay \/ Decide \/ SendImage
    \/ Persist \/ Radio \/ LogOpen \/ LogWrite \/ Reset

(* C12: without an interrupt or a failure main() never reaches a final
   program point: at every program point the next statement can run, and
   after the buffer reset of any cycle the next capture is the statement to
   run (up to the MaxCycles frames explored). *)
C12_LoopNeverReturns ==
    exc = "none" =>
        /\ pc \in StartupPoints \cup LoopPoints
        /\ (pc = "capture" /\ cycle >= MaxCycles) \/ ENABLED NormalStep

C12_Witness ==
    /\ exc = "none" /\ cycle = 2 /\ pc = "heartbeat"
    /\ Qualifies(lboxes, cfg) /\ Matches(lboxes, cfg)
    /\ Len(seen_file) = 1

(* C13: once start-up is over the host configuration (FILTER_CLASSES and the
   continue flag) has been forwarded exactly once when a remote connection
   is configured and never otherwise; it is never forwarded a second time,
   and never after the first frame was captured. *)
C13_HostConfigsOnce ==
    /\ Len(host_configs) <= 1
    /\ \A i \in DOMAIN host_configs :
          host_configs[i] = [filter_classes |-> cfg.FILTER_CLASSES,
                             cont |-> cfg.CONTINUE_RUN]
    /\ (pc \in LoopPoints \/ cycle >= 1) =>
          Len(host_configs) = IF cfg.CONNECT_REMOTE_SERVER THEN 1 ELSE 0

C13_Witness ==
    /\ pc = "capture" /\ cycle = 2
    /\ cfg.CONNECT_REMOTE_SERVER /\ cfg.CONTINUE_RUN
    /\ host_configs = <<[filter_classes |-> {"deer", "fox"}, cont |-> TRUE]>>

(* The calls of the current cycle with operation op. *)
CallsOf(op) == SelectSeq(calls, LAMBDA e : e.op = op)

(* C14: the filter is tested on every detection: when the recording
   condition holds and some detection, at whatever position and confidence,
   has a class in FILTER_CLASSES, the completed cycle has sent (remote
   configured), persisted and radioed (radio enabled), and the radio message
   and the log line name the class of detection 0. *)
C14_FilterOverAllDetections ==
    (CycleComplete /\ Qualifies(lboxes, cfg)
       /\ \E i \in DOMAIN lboxes : lboxes[i].class_name \in cfg.FILTER_CLASSES) =>
        /\ Len(CallsOf("save_current_frame")) = 1
        /\ Len(CallsOf("send_image_and_boxes")) = IF cfg.CONNECT_REMOTE_SERVER THEN 1 ELSE 0
        /\ Len(CallsOf("lora_send")) = IF cfg.LORA_ON THEN 1 ELSE 0
        /\ \A i \in DOMAIN CallsOf("lora_send") :
              CallsOf("lora_send")[i].text = <<"Top-1: ", lboxes[1].class_name>>
        /\ LinesOf(cycle) = <<<<cycle, " | ", lboxes[1].class_name, "\n">>>>

C14_Witness ==
    /\ CycleComplete /\ pc = "capture"
    /\ cfg.RECORD /\ cfg.RECORD_CONF_THRESHOLD = 6
    /\ cfg.FILTER_CLASSES = {"deer", "fox"}
    /\ cfg.CONNECT_REMOTE_SERVER /\ cfg.LORA_ON
    /\ lboxes = <<[class_name |-> "bird", confidence |-> 8],
                  [class_name |-> "deer", confidence |-> 6]>>
    /\ Len(CallsOf("save_current_frame")) = 1

(* C15: the buffer is empty whenever a capture is about to start, whatever
   branch the previous cycle took; from the capture to the reset it holds
   the frame of the current cycle only, and every frame inferred on, sent or
   persisted in a cycle is the frame captured in that cycle. *)
C15_BufferResetEveryCycle ==
    /\ pc = "capture" => stream = <<>>
    /\ pc \in LoopPoints \ {"capture"} => stream = <<cycle>>
    /\ \A i \in DOMAIN calls :
          calls[i].op \in {"infer", "send_image_and_boxes", "save_current_frame"}
              => calls[i].frame = <<cycle>>

C15_Witness ==
    /\ cycle = 2 /\ pc = "reset" /\ stream = <<2>>
    /\ Len(seen_file) = 1 /\ seen_file[1][1] = 2
    /\ Len(CallsOf("send_image_and_boxes")) = 1
    /\ CallsOf("save_current_frame")[1].frame = <<2>>

(* C16: with a display, every cycle updates it exactly once, with the
   cycle's detections, right after inference and before any send, persist,
   radio or log call, also when there are no detections or no action is
   taken; in headless mode it is never updated. *)
C16_DisplayEveryCycle ==
    /\ cfg.HEADLESS => CallsOf("display_update") = <<>>
    /\ Len(CallsOf("display_update")) <= 1
    /\ \A i \in DOMAIN calls : calls[i].op = "display_update" =>
          /\ i > 1 /\ calls[i - 1].op = "infer"
          /\ calls[i].text = detected_classes(lboxes)
    /\ (~cfg.HEADLESS /\ Inferred /\ (pc \in LoopPoints \ {"update"} \/ Effects # <<>>)) =>
          Len(CallsOf("display_update")) = 1

C16_Witness ==
    /\ ~cfg.HEADLESS /\ cycle = 2 /\ pc = "capture"
    /\ lboxes = <<>>
    /\ Ops(calls) = <<"capture", "infer", "display_update">>

(* C17: the log file is open only between its opening and the write of a
   cycle that meets the recording condition; every step taken while it is
   open (the write, an interrupt, a failure) leaves it closed, so it is
   closed at the buffer reset, at every capture and at the end of the run. *)
C17_NoLogHandleAcrossCycles ==
    /\ [](fileOpen => (/\ pc = "log_write" /\ exc = "none"
                       /\ Inferred /\ Qualifies(lboxes, cfg)
                       /\ LinesOf(cycle) = <<>>))
    /\ [][fileOpen => ~fileOpen']_vars

C17_Witness ==
    /\ fileOpen /\ cycle = 2 /\ Len(seen_file) = 1
    /\ seen_file[1][1] = 1

(* C18: a collaborator is called only when its flag is on and it has been
   built: socket calls (host configuration, heartbeat, image, close) need
   CONNECT_REMOTE_SERVER, the radio needs LORA_ON, the display needs
   HEADLESS off; in the loop the optional collaborators that exist are
   exactly those the flags ask for. *)
C18_OptionalCollaborators ==
    /\ \A i \in DOMAIN calls :
          /\ calls[i].op \in {"send_heartbeat", "send_image_and_boxes", "close"}
                => (cfg.CONNECT_REMOTE_SERVER /\ "socket_handler" \in built)
          /\ calls[i].op = "lora_send" => (cfg.LORA_ON /\ "lora_sender" \in built)
          /\ calls[i].op = "display_update" => (~cfg.HEADLESS /\ "display" \in built)
    /\ (host_configs # <<>> \/ closes > 0 \/ sock # "none")
          => (cfg.CONNECT_REMOTE_SERVER /\ "socket_handler" \in built)
    /\ "socket_handler" \in built => cfg.CONNECT_REMOTE_SERVER
    /\ "lora_sender" \in built => cfg.LORA_ON
    /\ "display" \in built => ~cfg.HEADLESS
    /\ pc \in LoopPoints =>
          built = {"detector", "stream", "camera"}
                    \cup (IF cfg.CONNECT_REMOTE_SERVER THEN {"socket_handler"} ELSE {})
                    \cup (IF cfg.LORA_ON THEN {"lora_sender"} ELSE {})
                    \cup (IF ~cfg.HEADLESS THEN {"display"} ELSE {})

C18_Witness ==
    /\ ~cfg.CONNECT_REMOTE_SERVER /\ ~cfg.LORA_ON /\ cfg.HEADLESS
    /\ exc = "KeyboardInterrupt" /\ pc = "done" /\ cycle = 2
    /\ Qualifies(lboxes, cfg) /\ Matches(lboxes, cfg)
    /\ Ops(calls) = <<"capture", "infer", "save_current_frame", "log_write">>
    /\ closes = 0 /\ host_configs = <<>>

(* C19: the interrupt step issues nothing but the one socket close (remote
   configured): it starts no capture, heartbeat, inference, send, persist,
   radio or log call, leaves what the cycle has issued and the log as they
   are, and no step follows it; an interrupt after the network send and
   before the log append leaves the send issued and no log line. *)
C19_NothingAfterInterrupt ==
    /\ [](exc = "KeyboardInterrupt" => (/\ pc \in {"done", "uncaught"}
                                       /\ ~fileOpen
                                       /\ closes <= 1))
    /\ [][(exc = "none" /\ exc' = "KeyboardInterrupt") =>
            /\ UNCHANGED <<seen_file, cycle, stream, lboxes, detFrame,
                           host_configs, elapsed>>
            /\ \/ calls' = calls /\ closes' = closes
               \/ /\ calls' = Append(calls, Event("close", <<>>, <<>>))
                  /\ closes' = closes + 1
                  /\ cfg.CONNECT_REMOTE_SERVER /\ pc \in LoopPoints
         ]_vars
    /\ [][exc # "KeyboardInterrupt"]_vars

C19_Witness ==
    /\ exc = "KeyboardInterrupt" /\ pc = "done"
    /\ Qualifies(lboxes, cfg) /\ Matches(lboxes, cfg)
    /\ Ops(calls) = <<"capture", "infer", "send_image_and_boxes", "close">>
    /\ LinesOf(cycle) = <<>> /\ closes = 1

====
